---- MODULE Spec2Model ----
(***************************************************************************)
(* Model of etl_modernization.py: the SCD Type-2 merge (scd2_merge) and    *)
(* the orchestration in main (extract, transform, dq_checks, load_targets, *)
(* parity_check).                                                          *)
(*                                                                         *)
(* A DataFrame is a record [cols, rows]: cols is the set of column names,  *)
(* rows the sequence of rows, each row a function from cols to cells.      *)
(* A cell is a tagged record, so that cells of different Python types      *)
(* compare unequal:  [num |-> n], [str |-> s], [bool |-> b], [date |-> d], *)
(* and the three missing-value objects NaN (np.nan), NaT (pd.NaT) and      *)
(* None (Python None).                                                     *)
(***************************************************************************)
EXTENDS Integers, Sequences, FiniteSets, TLC

VARIABLES
    phase,      \* harness of scd2_merge: "ready", "merged", "remerged"
    current,    \* DataFrame passed as current
    incoming,   \* DataFrame passed as incoming
    merged,     \* the local `merged` of the last call (line 122)
    result,     \* outcome of the first call: [status, df]
    result2,    \* outcome of the second call, on the first call's output
    pc,         \* position of main
    files,      \* whether the three source files exist
    sales,      \* the sales DataFrame read by extract_sources
    prod,       \* the product DataFrame read by extract_sources
    tables,     \* the value of `tables` in main (after transform)
    written,    \* the tables written by load_targets, by name
    trace,      \* the stages main has called, in order
    raised      \* the exception that ended main, or "none"

vars == <<phase, current, incoming, merged, result, result2,
          pc, files, sales, prod, tables, written, trace, raised>>

mergeVars == <<phase, current, incoming, merged, result, result2>>
mainVars == <<pc, files, sales, prod, tables, written, trace, raised>>

----------------------------------------------------------------------------
(* Bounds of the model *)

MaxKey == 2     \* business keys are 1..MaxKey
MaxCur == 2     \* rows of the Current table
MaxInc == 2     \* rows of the Incoming table
MaxSales == 2   \* rows of the sales table

----------------------------------------------------------------------------
(* Cells *)

Num(n) == [num |-> n]
Str(s) == [str |-> s]
Bool(b) == [bool |-> b]
Date(d) == [date |-> d]
NaN == [nan |-> TRUE]
NaT == [nat |-> TRUE]
None == [none |-> TRUE]

\* pd.Timestamp.utcnow().normalize(): the run date
now == Date("asOf")

\* Python's a != b on cells: NaN and NaT are unequal to everything,
\* themselves included; None != None is False.
PyNe(a, b) == IF a = NaN \/ b = NaN \/ a = NaT \/ b = NaT THEN TRUE ELSE a # b

\* Series.isna on a cell
isna(a) == a \in {NaN, NaT, None}

\* Series < 0 on a cell: False for a missing value
Lt0(a) == "num" \in DOMAIN a /\ a.num < 0

\* Series.get(name, default)
Get(row, name, default) == IF name \in DOMAIN row THEN row[name] ELSE default

----------------------------------------------------------------------------
(* DataFrames *)

DataFrame(cols, rows) == [cols |-> cols, rows |-> rows]

\* pd.DataFrame(list of dicts): the columns are the dicts' keys; no dict,
\* no column
FrameOfDicts(dicts) ==
    DataFrame(UNION {DOMAIN dicts[i] : i \in 1..Len(dicts)}, dicts)

RECURSIVE Flatten(_)
Flatten(ss) == IF ss = <<>> THEN <<>> ELSE Head(ss) \o Flatten(Tail(ss))

SystemCols == {"is_current", "effective_date", "end_date"}

ensure_cols(df, cols) ==
    DataFrame(df.cols \cup cols,
              [i \in 1..Len(df.rows) |->
                 [c \in df.cols \cup cols |->
                    IF c \in df.cols THEN df.rows[i][c] ELSE NaN]])

\* lines 112-116: a current table lacking any of the three system columns
\* gets all three set
WithSystemCols(df) ==
    IF SystemCols \subseteq df.cols THEN df
    ELSE DataFrame(df.cols \cup SystemCols,
                   [i \in 1..Len(df.rows) |->
                      [c \in df.cols \cup SystemCols |->
                         CASE c = "is_current" -> Bool(TRUE)
                           [] c = "effective_date" -> now
                           [] c = "end_date" -> NaT
                           [] OTHER -> df.rows[i][c]]])

----------------------------------------------------------------------------
(* DataFrame.merge(on=key_cols, how="outer", indicator=True,               *)
(*                 suffixes=("_cur", "_new"))                              *)

\* key_cols and attrib_cols as transform passes them (lines 193-194)
key_col == "product_id"
attrib_cols == {"unit_cost"}

\* the non-key columns the two frames share: only these get a suffix; the
\* key column appears once, under its own name
Overlap(left, right) == (left.cols \cap right.cols) \ {key_col}

MergedCols(left, right) ==
    {key_col, "_merge"}
      \cup {c \o "_cur" : c \in Overlap(left, right)}
      \cup {c \o "_new" : c \in Overlap(left, right)}
      \cup ((left.cols \cup right.cols) \ (Overlap(left, right) \cup {key_col}))

\* one row of the join: l from the left frame, r from the right frame; the
\* cells of an absent side are NaN
JoinRow(left, right, k, l, r, ind) ==
    LET ov == Overlap(left, right) IN
    [n \in MergedCols(left, right) |->
       IF n = key_col THEN k
       ELSE IF n = "_merge" THEN Str(ind)
       ELSE IF \E c \in ov : n = c \o "_cur"
         THEN IF ind = "right_only" THEN NaN
              ELSE l[CHOOSE c \in ov : n = c \o "_cur"]
       ELSE IF \E c \in ov : n = c \o "_new"
         THEN IF ind = "left_only" THEN NaN
              ELSE r[CHOOSE c \in ov : n = c \o "_new"]
       ELSE IF n \in left.cols
         THEN IF ind = "right_only" THEN NaN ELSE l[n]
       ELSE IF ind = "left_only" THEN NaN ELSE r[n]]

RowsWithKey(df, k) == SelectSeq(df.rows, LAMBDA r : r[key_col] = k)

KeysOf(df) == {df.rows[i][key_col] : i \in 1..Len(df.rows)}

\* an outer join sorts the keys; a missing key sorts last
KeyLeq(a, b) ==
    IF "num" \in DOMAIN a /\ "num" \in DOMAIN b THEN a.num <= b.num
    ELSE "num" \in DOMAIN a \/ a = b

RECURSIVE SortKeys(_)
SortKeys(S) ==
    IF S = {} THEN <<>>
    ELSE LET m == CHOOSE a \in S : \A b \in S : KeyLeq(a, b)
         IN <<m>> \o SortKeys(S \ {m})

\* the rows of the join for key k: every pair of a left and a right row with
\* that key, or the unmatched rows of one side
GroupRows(left, right, k) ==
    LET L == RowsWithKey(left, k)
        R == RowsWithKey(right, k)
    IN IF L # <<>> /\ R # <<>>
         THEN [i \in 1..(Len(L) * Len(R)) |->
                 JoinRow(left, right, k, L[((i - 1) \div Len(R)) + 1],
                         R[((i - 1) % Len(R)) + 1], "both")]
       ELSE IF L # <<>>
         THEN [i \in 1..Len(L) |-> JoinRow(left, right, k, L[i], <<>>, "left_only")]
       ELSE [i \in 1..Len(R) |-> JoinRow(left, right, k, <<>>, R[i], "right_only")]

merge(left, right) ==
    LET keys == SortKeys(KeysOf(left) \cup KeysOf(right))
    IN Flatten([i \in 1..Len(keys) |-> GroupRows(left, right, keys[i])])

----------------------------------------------------------------------------
(* scd2_merge, lines 107-159 *)

\* line 128
changed(row) ==
    \E c \in attrib_cols :
        PyNe(Get(row, c \o "_cur", None), Get(row, c \o "_new", None))

\* lines 131-133 and 153-155
expired(row, cols) ==
    [c \in cols \cup {"is_current", "end_date"} |->
       CASE c = "is_current" -> Bool(FALSE)
         [] c = "end_date" -> now
         [] OTHER -> Get(row, c \o "_cur", None)]

\* lines 136-139
newrow_both(row, cols) ==
    [c \in cols \cup SystemCols |->
       CASE c = "is_current" -> Bool(TRUE)
         [] c = "effective_date" -> now
         [] c = "end_date" -> NaT
         [] OTHER -> Get(row, c \o "_new", Get(row, c \o "_cur", None))]

\* line 143
unchanged(row, cols) == [c \in cols |-> Get(row, c \o "_cur", None)]

\* lines 146-149
newrow_right(row, cols) ==
    [c \in cols \cup SystemCols |->
       CASE c = "is_current" -> Bool(TRUE)
         [] c = "effective_date" -> now
         [] c = "end_date" -> NaT
         [] OTHER -> Get(row, c \o "_new", None)]

\* what one iteration of the loop (lines 126-156) appends to keep
KeepOf(row, cols) ==
    IF row["_merge"] = Str("both")
      THEN IF changed(row) THEN <<newrow_both(row, cols)>>
           ELSE <<unchanged(row, cols)>>
    ELSE IF row["_merge"] = Str("right_only") THEN <<newrow_right(row, cols)>>
    ELSE <<>>

\* what one iteration of the loop appends to updates
UpdatesOf(row, cols) ==
    IF row["_merge"] = Str("both")
      THEN IF changed(row) THEN <<expired(row, cols)>> ELSE <<>>
    ELSE IF row["_merge"] = Str("right_only") THEN <<>>
    ELSE <<expired(row, cols)>>

EmptyFrame == DataFrame({}, <<>>)

\* scd2_merge(current, incoming, ["product_id"], ["unit_cost"]): the value
\* returned, or the exception raised, with the local `merged`
scd2_merge(cur0, inc0) ==
    LET cur == WithSystemCols(cur0)
        inc == ensure_cols(inc0, cur.cols \ inc0.cols)
    IN IF key_col \notin cur.cols \/ key_col \notin inc.cols
         THEN [status |-> "KeyError", df |-> EmptyFrame, merged |-> <<>>]
       ELSE LET m == merge(cur, inc)
                keep == Flatten([i \in 1..Len(m) |-> KeepOf(m[i], cur.cols)])
                updates == Flatten([i \in 1..Len(m) |-> UpdatesOf(m[i], cur.cols)])
            IN [status |-> "ok", df |-> FrameOfDicts(keep \o updates), merged |-> m]

\* merge refuses to join a key column of Python objects (here: all None)
\* with a numeric one in some pandas versions and finds no match in others
KeyDtypesDiffer(cur0, inc0) ==
    /\ key_col \in cur0.cols
    /\ cur0.rows # <<>> /\ inc0.rows # <<>>
    /\ \A i \in 1..Len(cur0.rows) : cur0.rows[i][key_col] = None
    /\ \A i \in 1..Len(inc0.rows) : "num" \in DOMAIN inc0.rows[i][key_col]

\* every outcome a call can have
Outcomes(cur0, inc0) ==
    {scd2_merge(cur0, inc0)}
      \cup (IF KeyDtypesDiffer(cur0, inc0)
              THEN {[status |-> "ValueError", df |-> EmptyFrame, merged |-> <<>>]}
              ELSE {})

----------------------------------------------------------------------------
(* The inputs of scd2_merge *)

Keys == {Num(k) : k \in 1..MaxKey}
Costs == {Num(10), Num(12), NaN}
Categories == {Str("x"), Str("y")}

SeqsUpTo(S, n) == UNION {[1..m -> S] : m \in 0..n}

\* rows of a dimension without system columns
PlainRows ==
    {[product_id |-> k, unit_cost |-> u, category |-> g] :
        k \in Keys, u \in Costs, g \in Categories}

\* versioned rows: the current version of a key, or an expired one
VersionedRows ==
    {[product_id |-> r.product_id, unit_cost |-> r.unit_cost,
      category |-> r.category, is_current |-> s[1],
      effective_date |-> s[2], end_date |-> s[3]] :
        r \in PlainRows,
        s \in {<<Bool(TRUE), Date("d0"), NaT>>,
               <<Bool(FALSE), Date("d0"), Date("d1")>>}}

\* incoming rows that do not supply category
CostOnlyRows == {[product_id |-> k, unit_cost |-> u] : k \in Keys, u \in Costs}

CurrentTables ==
    {DataFrame({"product_id", "unit_cost", "category"} \cup SystemCols, rs) :
        rs \in SeqsUpTo(VersionedRows, MaxCur)}
      \cup {DataFrame({"product_id", "unit_cost", "category"}, rs) :
              rs \in SeqsUpTo(PlainRows, MaxCur)}

IncomingTables ==
    {DataFrame({"product_id", "unit_cost", "category"}, rs) :
        rs \in SeqsUpTo(PlainRows, MaxInc)}
      \cup {DataFrame({"product_id", "unit_cost"}, rs) :
              rs \in SeqsUpTo(CostOnlyRows, MaxInc)}

----------------------------------------------------------------------------
(* The pipeline: extract_sources, transform, dq_checks, load_targets,      *)
(* parity_check, as main calls them (lines 264-271)                        *)

MaxProd == 1    \* product ids of the pipeline's inputs are 1..MaxProd

\* DataFrame.merge(right[cols], on=on, how="left"): no shared column but on
LeftJoin(left, right, on, cols) ==
    LET match(l) == SelectSeq(right.rows, LAMBDA r : r[on] = l[on])
        joined(l) ==
            IF match(l) = <<>>
              THEN <<[c \in left.cols \cup cols |->
                        IF c \in left.cols THEN l[c] ELSE NaN]>>
            ELSE [j \in 1..Len(match(l)) |->
                    [c \in left.cols \cup cols |->
                       IF c \in left.cols THEN l[c] ELSE match(l)[j][c]]]
    IN DataFrame(left.cols \cup cols,
                 Flatten([i \in 1..Len(left.rows) |-> joined(left.rows[i])]))

\* df[name] = vals, a cell per row
Assign(df, name, vals) ==
    DataFrame(df.cols \cup {name},
              [i \in 1..Len(df.rows) |->
                 [c \in df.cols \cup {name} |->
                    IF c = name THEN vals[i] ELSE df.rows[i][c]]])

\* df[name] = source column of the same frame
AssignFrom(df, name, source) ==
    Assign(df, name, [i \in 1..Len(df.rows) |-> df.rows[i][source]])

\* df[name] = one value on every row
AssignAll(df, name, value) ==
    Assign(df, name, [i \in 1..Len(df.rows) |-> value])

\* line 185: a missing operand gives a missing margin
gross_margin(row) ==
    IF \E c \in {"sales_amount", "quantity", "unit_cost"} : isna(row[c]) THEN NaN
    ELSE Num(row["sales_amount"].num - (row["quantity"].num * row["unit_cost"].num))

\* lines 199-201
Audit(df) ==
    AssignAll(AssignAll(df, "etl_run_id", Str("asOf")), "ingestion_ts", Date("utcnow"))

\* the customer dimension: one customer, as generate_datasets writes it
cust ==
    DataFrame({"customer_id", "email", "region", "is_vip"},
              <<[customer_id |-> Num(1), email |-> Str("user1@example.com"),
                 region |-> Str("NA"), is_vip |-> Num(0)]>>)

\* lines 177-178: the year and the quarter of a date
YearOf(d) == [year_of |-> d]
QuarterOf(d) == [quarter_of |-> d]

\* lines 161-203. prod_new is prod with the cost of a 5% sample raised, and
\* a 5% sample of fewer than ten rows is empty; the emails of cust are
\* lower-case already
transform(dfs) ==
    LET s0 == dfs.sales
        sd == Assign(Assign(s0, "order_year",
                            [i \in 1..Len(s0.rows) |-> YearOf(s0.rows[i]["order_date"])]),
                     "order_qtr",
                     [i \in 1..Len(s0.rows) |-> QuarterOf(s0.rows[i]["order_date"])])
        cu == AssignFrom(dfs.customer, "customer_sk", "customer_id")
        pr == AssignFrom(dfs.product, "product_sk", "product_id")
        joined == LeftJoin(LeftJoin(sd, cu, "customer_id", {"region", "is_vip"}),
                           pr, "product_id", {"category", "unit_cost"})
        fact == Assign(joined, "gross_margin",
                       [i \in 1..Len(joined.rows) |-> gross_margin(joined.rows[i])])
        prod_new == pr
        prod_cur == AssignAll(AssignAll(AssignAll(pr, "is_current", Bool(TRUE)),
                                        "effective_date", NaT),
                              "end_date", NaT)
        prod_scd2 == scd2_merge(prod_cur, prod_new).df
    IN [fact_sales |-> Audit(fact), dim_customer |-> Audit(cu),
        dim_product_scd2 |-> Audit(prod_scd2)]

\* dq_checks without the product_id check
dq_checks_no_product(tbls) ==
    LET fact == tbls.fact_sales
        neg_qty == SelectSeq(fact.rows, LAMBDA r : Lt0(r["quantity"]))
        neg_amt == SelectSeq(fact.rows, LAMBDA r : Lt0(r["sales_amount"]))
    IN IF Len(neg_qty) # 0 \/ Len(neg_amt) # 0
         THEN "DQ FAIL: negative values found in facts"
       ELSE IF \E i \in 1..Len(fact.rows) : isna(fact.rows[i]["customer_id"])
         THEN "DQ FAIL: orphaned customer_id"
       ELSE "ok"

\* lines 208-229: the message of the ValueError raised, or "ok"
dq_checks(tbls) ==
    LET fact == tbls.fact_sales
        neg_qty == SelectSeq(fact.rows, LAMBDA r : Lt0(r["quantity"]))
        neg_amt == SelectSeq(fact.rows, LAMBDA r : Lt0(r["sales_amount"]))
    IN IF Len(neg_qty) # 0 \/ Len(neg_amt) # 0
         THEN "DQ FAIL: negative values found in facts"
       ELSE IF \E i \in 1..Len(fact.rows) : isna(fact.rows[i]["customer_id"])
         THEN "DQ FAIL: orphaned customer_id"
       ELSE IF \E i \in 1..Len(fact.rows) : isna(fact.rows[i]["product_id"])
         THEN "DQ FAIL: orphaned product_id"
       ELSE "ok"

\* to_csv then read_csv on a cell: a missing value is written as an empty
\* field and read back as NaN, a date as its text
CsvCell(a) ==
    IF isna(a) THEN NaN
    ELSE IF "date" \in DOMAIN a THEN Str(a.date)
    ELSE a

\* lines 234-238 (and the read_csv of line 251)
write_csv(df) ==
    DataFrame(df.cols,
              [i \in 1..Len(df.rows) |-> [c \in df.cols |-> CsvCell(df.rows[i][c])]])

\* lines 240-244
load_targets(tbls) == [k \in DOMAIN tbls |-> write_csv(tbls[k])]

RECURSIVE SumCol(_, _)
\* Series.sum(): missing values are skipped
SumCol(rows, c) ==
    IF rows = <<>> THEN 0
    ELSE (IF isna(Head(rows)[c]) THEN 0 ELSE Head(rows)[c].num) + SumCol(Tail(rows), c)

Abs(n) == IF n < 0 THEN -n ELSE n
Max(a, b) == IF a >= b THEN a ELSE b

\* lines 249-259: whether the assertion holds. mdx_value is 0.999 of the
\* KPI, so diff / max(kpi, 1.0) < 0.01 is |kpi| < 10 * max(kpi, 1)
parity_check(fact) ==
    LET recent == SelectSeq(fact.rows, LAMBDA r : r["order_date"] = Str("today"))
        kpi_margin == SumCol(recent, "gross_margin")
    IN Abs(kpi_margin) < 10 * Max(kpi_margin, 1)

\* main's five calls, in the order of lines 266-270
StageOrder ==
    <<"extract_sources", "transform", "dq_checks", "load_targets", "parity_check">>

----------------------------------------------------------------------------
(* The inputs of the pipeline *)

SalesRows ==
    {[order_id |-> Num(1), order_date |-> Date("today"), customer_id |-> cu,
      product_id |-> p, quantity |-> q, sales_amount |-> a] :
        cu \in {Num(1), NaN},
        p \in {Num(k) : k \in 1..MaxProd} \cup {NaN},
        q \in {Num(-1), Num(2)},
        a \in {Num(-5), Num(5), NaN}}

SalesTables ==
    {DataFrame({"order_id", "order_date", "customer_id", "product_id",
                "quantity", "sales_amount"}, rs) :
        rs \in SeqsUpTo(SalesRows, MaxSales)}

\* one row per product id, as generate_datasets writes them; every product
\* at the same unit cost
ProductTables ==
    {DataFrame({"product_id", "category", "unit_cost"},
               [k \in 1..MaxProd |->
                  [product_id |-> Num(k), category |-> Str("Books"),
                   unit_cost |-> cost]]) :
        cost \in {Num(2), Num(20)}}

NoTables == [none |-> EmptyFrame]

----------------------------------------------------------------------------
(* The harness of scd2_merge: one call on the inputs, then a second call   *)
(* on the first call's output with the same incoming table and run date    *)

MergeIdle ==
    /\ phase = "idle" /\ current = EmptyFrame /\ incoming = EmptyFrame
    /\ merged = <<>> /\ result = <<>> /\ result2 = <<>>

MainIdle ==
    /\ pc = "idle" /\ files = FALSE /\ sales = EmptyFrame /\ prod = EmptyFrame
    /\ tables = NoTables /\ written = NoTables /\ trace = <<>> /\ raised = "none"

InitMerge ==
    /\ phase = "ready"
    /\ current \in CurrentTables
    /\ incoming \in IncomingTables
    /\ merged = <<>> /\ result = <<>> /\ result2 = <<>>
    /\ MainIdle

Merge ==
    /\ phase = "ready"
    /\ \E o \in Outcomes(current, incoming) :
         /\ result' = [status |-> o.status, df |-> o.df]
         /\ merged' = o.merged
    /\ phase' = "merged"
    /\ UNCHANGED <<current, incoming, result2>>
    /\ UNCHANGED mainVars

Remerge ==
    /\ phase = "merged"
    /\ result.status = "ok"
    /\ \E o \in Outcomes(result.df, incoming) :
         /\ result2' = [status |-> o.status, df |-> o.df]
         /\ merged' = o.merged
    /\ phase' = "remerged"
    /\ UNCHANGED <<current, incoming, result>>
    /\ UNCHANGED mainVars

NextMerge == Merge \/ Remerge

SpecMerge == InitMerge /\ [][NextMerge]_vars

----------------------------------------------------------------------------
(* main *)

InitMain ==
    /\ pc = "start"
    /\ \/ files = FALSE /\ sales = EmptyFrame /\ prod = EmptyFrame
       \/ files = TRUE /\ sales \in SalesTables /\ prod \in ProductTables
    /\ tables = NoTables /\ written = NoTables
    /\ trace = <<>> /\ raised = "none"
    /\ MergeIdle

\* line 266; lines 96-98 raise when a file is missing
Extract ==
    /\ pc = "start"
    /\ trace' = Append(trace, "extract_sources")
    /\ IF files THEN pc' = "extracted" /\ raised' = raised
       ELSE pc' = "aborted" /\ raised' = "FileNotFoundError"
    /\ UNCHANGED <<files, sales, prod, tables, written>>
    /\ UNCHANGED mergeVars

\* line 267
Transform ==
    /\ pc = "extracted"
    /\ trace' = Append(trace, "transform")
    /\ tables' = transform([customer |-> cust, product |-> prod, sales |-> sales])
    /\ pc' = "transformed"
    /\ UNCHANGED <<files, sales, prod, written, raised>>
    /\ UNCHANGED mergeVars

\* line 268
DqChecks ==
    /\ pc = "transformed"
    /\ trace' = Append(trace, "dq_checks")
    /\ IF dq_checks(tables) = "ok" THEN pc' = "checked" /\ raised' = raised
       ELSE pc' = "aborted" /\ raised' = dq_checks(tables)
    /\ UNCHANGED <<files, sales, prod, tables, written>>
    /\ UNCHANGED mergeVars

\* line 269
LoadTargets ==
    /\ pc = "checked"
    /\ trace' = Append(trace, "load_targets")
    /\ written' = load_targets(tables)
    /\ pc' = "loaded"
    /\ UNCHANGED <<files, sales, prod, tables, raised>>
    /\ UNCHANGED mergeVars

\* line 270
ParityCheck ==
    /\ pc = "loaded"
    /\ trace' = Append(trace, "parity_check")
    /\ IF parity_check(written.fact_sales) THEN pc' = "done" /\ raised' = raised
       ELSE pc' = "aborted" /\ raised' = "AssertionError: Parity outside tolerance"
    /\ UNCHANGED <<files, sales, prod, tables, written>>
    /\ UNCHANGED mergeVars

NextMain == Extract \/ Transform \/ DqChecks \/ LoadTargets \/ ParityCheck

SpecMain == InitMain /\ [][NextMain]_vars

----------------------------------------------------------------------------
(* Vocabulary of the properties of scd2_merge *)

\* the Current table as the call sees it (system columns present)
Cur == WithSystemCols(current)

Out == result.df

Merged1 == phase = "merged" /\ result.status = "ok"

RowsFor(df, k) == SelectSeq(df.rows, LAMBDA r : r[key_col] = k)

RowSet(df) == {df.rows[i] : i \in 1..Len(df.rows)}

CurrentRowsFor(df, k) ==
    SelectSeq(df.rows, LAMBDA r : r[key_col] = k /\ r["is_current"] = Bool(TRUE))

AtMostOneCurrentPerKey == \A k \in KeysOf(Cur) : Len(CurrentRowsFor(Cur, k)) <= 1

UniqueIncomingKeys == \A k \in KeysOf(incoming) : Len(RowsFor(incoming, k)) = 1

\* keys with exactly one row in Current and exactly one row in Incoming
PairedKeys ==
    {k \in KeysOf(Cur) \cap KeysOf(incoming) :
        Len(RowsFor(Cur, k)) = 1 /\ Len(RowsFor(incoming, k)) = 1}

CurRow(k) == RowsFor(Cur, k)[1]
IncRow(k) == RowsFor(incoming, k)[1]

IsNull(a) == a = NaN \/ a = NaT \/ a = None

\* the expiry record of a Current row
ExpiryOf(c) == [c EXCEPT !["is_current"] = Bool(FALSE), !["end_date"] = now]

\* the new-version record of a Current row and an Incoming row: Incoming's
\* value where Incoming supplies the field, Current's where it does not
NewVersionOf(c, i) ==
    [f \in DOMAIN c |->
       CASE f = "is_current" -> Bool(TRUE)
         [] f = "effective_date" -> now
         [] f = "end_date" -> NaT
         [] OTHER -> IF f \in DOMAIN i THEN i[f] ELSE c[f]]

----------------------------------------------------------------------------
(* Properties *)

\* C1 (key coverage): when Current has at most one is_current row per key
\* and Incoming has unique keys, the output has exactly one is_current row
\* for every key of Incoming and none for every key only in Current.
C1_KeyCoverage ==
    (phase = "merged" /\ AtMostOneCurrentPerKey /\ UniqueIncomingKeys) =>
        /\ result.status = "ok"
        /\ \A k \in KeysOf(incoming) : Len(CurrentRowsFor(Out, k)) = 1
        /\ \A k \in KeysOf(Cur) \ KeysOf(incoming) : Len(CurrentRowsFor(Out, k)) = 0

\* C2 (idempotence): a second call on the first call's output, with the same
\* Incoming and run date, returns the first call's output as a set of rows.
C2_Idempotent ==
    phase = "remerged" =>
        /\ result2.status = "ok"
        /\ RowSet(result2.df) = RowSet(Out)

\* C3 (no drift on no-op): a key present on both sides whose attribute
\* columns hold the same non-null values gets exactly one output row, equal
\* to its Current row on every field, the business key included.
C3_NoDriftOnNoOp ==
    Merged1 =>
        \A k \in PairedKeys :
            (\A a \in attrib_cols :
                ~IsNull(CurRow(k)[a]) /\ CurRow(k)[a] = IncRow(k)[a])
            => RowsFor(Out, k) = <<CurRow(k)>>

\* C4 (changed key): a key present on both sides with a differing attribute
\* column gets exactly two output rows: the expiry record of its Current
\* row and the new-version record.
C4_ChangedKey ==
    Merged1 =>
        \A k \in PairedKeys :
            (\E a \in attrib_cols : CurRow(k)[a] # IncRow(k)[a])
            => /\ Len(RowsFor(Out, k)) = 2
               /\ RowSet(DataFrame(Out.cols, RowsFor(Out, k)))
                    = {ExpiryOf(CurRow(k)), NewVersionOf(CurRow(k), IncRow(k))}

\* C5 (implicit delete): a key of Current absent from Incoming gets only the
\* expiry records of its Current rows, business key included, and no row
\* with is_current = true.
C5_ImplicitDelete ==
    Merged1 =>
        \A k \in KeysOf(Cur) \ KeysOf(incoming) :
            /\ Len(RowsFor(Out, k)) = Len(RowsFor(Cur, k))
            /\ RowSet(DataFrame(Out.cols, RowsFor(Out, k)))
                 = {ExpiryOf(RowsFor(Cur, k)[i]) : i \in 1..Len(RowsFor(Cur, k))}
            /\ Len(CurrentRowsFor(Out, k)) = 0

\* C6 (duplicate incoming key): when Incoming holds two rows with the same
\* business key the call fails with a duplicate-key error and returns no table.
C6_DuplicateKeyFails ==
    (phase = "merged" /\ ~UniqueIncomingKeys) =>
        /\ result.status = "DuplicateKeyError"
        /\ result.df = EmptyFrame

\* C9 (conservation): every business key of Current or Incoming is the key
\* of at least one output row, so the output has at least as many rows as
\* there are distinct keys.
C9_Conservation ==
    Merged1 =>
        /\ \A k \in KeysOf(Cur) \cup KeysOf(incoming) : RowsFor(Out, k) # <<>>
        /\ Len(Out.rows) >= Cardinality(KeysOf(Cur) \cup KeysOf(incoming))

\* C10 (null-safe change detection): a joined row whose attribute column is
\* null on both sides is classified unchanged and yields the Current row
\* only; one null on exactly one side is classified changed.
C10_NullSafeChange ==
    Merged1 =>
        \A i \in 1..Len(merged) :
            merged[i]["_merge"] = Str("both") =>
                \A a \in attrib_cols :
                    LET c == merged[i][a \o "_cur"]
                        n == merged[i][a \o "_new"]
                    IN /\ (IsNull(c) /\ IsNull(n)) =>
                            /\ ~changed(merged[i])
                            /\ UpdatesOf(merged[i], Cur.cols) = <<>>
                            /\ KeepOf(merged[i], Cur.cols)
                                 = <<unchanged(merged[i], Cur.cols)>>
                       /\ (IsNull(c) # IsNull(n)) => changed(merged[i])

----------------------------------------------------------------------------
(* Properties of main *)

Called(stage) == \E i \in 1..Len(trace) : trace[i] = stage

IsPrefix(s, t) == Len(s) <= Len(t) /\ \A i \in 1..Len(s) : s[i] = t[i]

\* a row the quality gate must reject
GateViolation(fact) ==
    \E i \in 1..Len(fact.rows) :
        LET r == fact.rows[i]
        IN \/ ("num" \in DOMAIN r["quantity"] /\ r["quantity"].num < 0)
           \/ ("num" \in DOMAIN r["sales_amount"] /\ r["sales_amount"].num < 0)
           \/ IsNull(r["customer_id"])
           \/ IsNull(r["product_id"])

DqRaised ==
    raised \in {"DQ FAIL: negative values found in facts",
                "DQ FAIL: orphaned customer_id", "DQ FAIL: orphaned product_id"}

\* C7 (quality gate halts the pipeline): the stages run in the order
\* extract, transform, dq_checks, load_targets, parity_check; once dq_checks
\* has run on a fact table with a negative quantity, a negative amount or a
\* null customer_id or product_id it has raised, and after it raised neither
\* load_targets nor parity_check has run and no table is written.
C7_QualityGateHalts ==
    /\ IsPrefix(trace, StageOrder)
    /\ (Called("dq_checks") /\ GateViolation(tables.fact_sales)) => DqRaised
    /\ DqRaised =>
         /\ pc = "aborted"
         /\ trace = <<"extract_sources", "transform", "dq_checks">>
         /\ written = NoTables

\* a run that dq_checks ended on a null product_id
C7_Witness ==
    /\ pc = "aborted"
    /\ raised = "DQ FAIL: orphaned product_id"
    /\ Called("dq_checks")
    /\ GateViolation(tables.fact_sales)

\* C8 (written facts are non-negative): every row of a written fact_sales
\* satisfies sales_amount >= 0.
C8_WrittenNonNegative ==
    "fact_sales" \in DOMAIN written =>
        \A i \in 1..Len(written.fact_sales.rows) :
            LET a == written.fact_sales.rows[i]["sales_amount"]
            IN "num" \in DOMAIN a /\ a.num >= 0

====
